---- MODULE Spec2Model ----
(***************************************************************************)
(* Model of the webhook deploy server (src/server.js, lines 214-603):      *)
(* the Docker Hub webhook handler, the updatedServices tracker and the     *)
(* deployment status monitor scheduled with node-cron.                     *)
(*                                                                         *)
(* JavaScript runs every handler to completion between two awaits, so one  *)
(* action of the model is one synchronous stretch of a handler: from its   *)
(* start or from the resumption of an await up to the next await or the    *)
(* end of the handler.                                                     *)
(***************************************************************************)
EXTENDS Naturals, Sequences, FiniteSets, Bags

VARIABLES
    updatedServices,     \* keys of the Map updatedServices
    requests,            \* bag of the /webhook/dockerhub requests received
    pollers,             \* bag of the running invocations of the cron callback
    successSince,        \* per key: success notifications since its last set()
    okCount,             \* per deployment: success notifications since its last update
    telegramConfigured,  \* TELEGRAM_BOT_TOKEN and TELEGRAM_CHAT_ID are both set
    observed,            \* what the status query showed in the step just taken
    delivery,            \* how the notification of the step just taken ended
    resolveInput,        \* the identifier handed to the key lookup
    resolveResult,       \* the result of the key lookup
    github,              \* the /webhook/github request handled last
    deploymentContainers, \* spec.template.spec.containers of the deployment read
    patch                \* the container list updateDeployment submits

\* the variables of the stand-alone specifications
lookupVars == <<resolveInput, resolveResult>>

updaterVars == <<deploymentContainers, patch>>

aside == <<lookupVars, github, updaterVars>>

\* the variables of the running system
coreVars == <<updatedServices, requests, pollers, successSince, okCount,
              telegramConfigured, observed, delivery>>

vars == <<updatedServices, requests, pollers, successSince, okCount,
          telegramConfigured, observed, delivery, aside>>

----------------------------------------------------------------------------
(* Bounds *)

\* number of entries of SERVICE_MAPPINGS the running system is loaded with
NumServices == 2

\* number of /webhook/dockerhub requests received
MaxRequests == 2

\* number of invocations of the cron callback that can be active at once
MaxPollers == 2

\* largest replica count the cluster reports
MaxReplicas == 1

\* number of trailing characters cut from a key to build a near miss
MaxTrim == 1

\* where the counters of success notifications stop: one more than the
\* invocations active at once can send for the keys of one deployment
MaxNotices == NumServices * MaxPollers + 1

----------------------------------------------------------------------------
(* The mapping table *)

SERVICE_MAPPINGS == <<
    [key |-> "auth-service", namespace |-> "backend", deployment |-> "auth-service",
     chars |-> <<"a","u","t","h","-","s","e","r","v","i","c","e">>],
    [key |-> "auth", namespace |-> "backend", deployment |-> "auth-service",
     chars |-> <<"a","u","t","h">>],
    [key |-> "masters-service", namespace |-> "backend", deployment |-> "masters-service",
     chars |-> <<"m","a","s","t","e","r","s","-","s","e","r","v","i","c","e">>],
    [key |-> "masters", namespace |-> "backend", deployment |-> "masters-service",
     chars |-> <<"m","a","s","t","e","r","s">>],
    [key |-> "orders-service", namespace |-> "backend", deployment |-> "orders-service",
     chars |-> <<"o","r","d","e","r","s","-","s","e","r","v","i","c","e">>],
    [key |-> "orders", namespace |-> "backend", deployment |-> "orders-service",
     chars |-> <<"o","r","d","e","r","s">>],
    [key |-> "users-service", namespace |-> "backend", deployment |-> "users-service",
     chars |-> <<"u","s","e","r","s","-","s","e","r","v","i","c","e">>],
    [key |-> "users", namespace |-> "backend", deployment |-> "users-service",
     chars |-> <<"u","s","e","r","s">>],
    [key |-> "calls-service", namespace |-> "backend", deployment |-> "calls-service",
     chars |-> <<"c","a","l","l","s","-","s","e","r","v","i","c","e">>],
    [key |-> "calls", namespace |-> "backend", deployment |-> "calls-service",
     chars |-> <<"c","a","l","l","s">>],
    [key |-> "reports-service", namespace |-> "backend", deployment |-> "reports-service",
     chars |-> <<"r","e","p","o","r","t","s","-","s","e","r","v","i","c","e">>],
    [key |-> "reports", namespace |-> "backend", deployment |-> "reports-service",
     chars |-> <<"r","e","p","o","r","t","s">>],
    [key |-> "avito-service", namespace |-> "backend", deployment |-> "avito-service",
     chars |-> <<"a","v","i","t","o","-","s","e","r","v","i","c","e">>],
    [key |-> "avito", namespace |-> "backend", deployment |-> "avito-service",
     chars |-> <<"a","v","i","t","o">>],
    [key |-> "cash-service", namespace |-> "backend", deployment |-> "cash-service",
     chars |-> <<"c","a","s","h","-","s","e","r","v","i","c","e">>],
    [key |-> "cash", namespace |-> "backend", deployment |-> "cash-service",
     chars |-> <<"c","a","s","h">>],
    [key |-> "files-service", namespace |-> "backend", deployment |-> "files-service",
     chars |-> <<"f","i","l","e","s","-","s","e","r","v","i","c","e">>],
    [key |-> "files", namespace |-> "backend", deployment |-> "files-service",
     chars |-> <<"f","i","l","e","s">>],
    [key |-> "backup-service", namespace |-> "backend", deployment |-> "backup-service",
     chars |-> <<"b","a","c","k","u","p","-","s","e","r","v","i","c","e">>],
    [key |-> "backup", namespace |-> "backend", deployment |-> "backup-service",
     chars |-> <<"b","a","c","k","u","p">>],
    [key |-> "callcentre-frontend", namespace |-> "frontend", deployment |-> "callcentre-frontend",
     chars |-> <<"c","a","l","l","c","e","n","t","r","e","-","f","r","o","n","t","e","n","d">>],
    [key |-> "callcentre", namespace |-> "frontend", deployment |-> "callcentre-frontend",
     chars |-> <<"c","a","l","l","c","e","n","t","r","e">>],
    [key |-> "front_callcentre", namespace |-> "frontend", deployment |-> "callcentre-frontend",
     chars |-> <<"f","r","o","n","t","_","c","a","l","l","c","e","n","t","r","e">>],
    [key |-> "dircrm-frontend", namespace |-> "frontend", deployment |-> "dircrm-frontend",
     chars |-> <<"d","i","r","c","r","m","-","f","r","o","n","t","e","n","d">>],
    [key |-> "front_dir", namespace |-> "frontend", deployment |-> "dircrm-frontend",
     chars |-> <<"f","r","o","n","t","_","d","i","r">>],
    [key |-> "mastercrm-frontend", namespace |-> "frontend", deployment |-> "mastercrm-frontend",
     chars |-> <<"m","a","s","t","e","r","c","r","m","-","f","r","o","n","t","e","n","d">>],
    [key |-> "mastercrm", namespace |-> "frontend", deployment |-> "mastercrm-frontend",
     chars |-> <<"m","a","s","t","e","r","c","r","m">>],
    [key |-> "notifications-service", namespace |-> "crm", deployment |-> "notifications-service",
     chars |-> <<"n","o","t","i","f","i","c","a","t","i","o","n","s","-","s","e","r","v","i","c","e">>],
    [key |-> "notifications", namespace |-> "crm", deployment |-> "notifications-service",
     chars |-> <<"n","o","t","i","f","i","c","a","t","i","o","n","s">>],
    [key |-> "realtime-service", namespace |-> "crm", deployment |-> "realtime-service",
     chars |-> <<"r","e","a","l","t","i","m","e","-","s","e","r","v","i","c","e">>],
    [key |-> "realtime", namespace |-> "crm", deployment |-> "realtime-service",
     chars |-> <<"r","e","a","l","t","i","m","e">>]
>>

\* the entries the running system is loaded with, in declaration order
Registry == SubSeq(SERVICE_MAPPINGS, 1, NumServices)

RegistryKeys == {Registry[i].key : i \in 1..Len(Registry)}

Deployments == {<<Registry[i].namespace, Registry[i].deployment>> : i \in 1..Len(Registry)}

DeploymentOf(entry) == <<entry.namespace, entry.deployment>>

\* SERVICE_MAPPINGS[serviceKey]
ConfigOf(mappings, serviceKey) ==
    mappings[CHOOSE i \in 1..Len(mappings) : mappings[i].key = serviceKey]

----------------------------------------------------------------------------
(* JavaScript values of repository.repo_name *)

JSUndefined == [type |-> "undefined", chars |-> <<>>]
JSNumber == [type |-> "number", chars |-> <<>>]
JSString(s) == [type |-> "string", chars |-> s]

\* String.prototype.indexOf(sub, i), 1-based, 0 when there is no occurrence
RECURSIVE IndexOfFrom(_, _, _)
IndexOfFrom(s, sub, i) ==
    IF i + Len(sub) - 1 > Len(s) THEN 0
    ELSE IF SubSeq(s, i, i + Len(sub) - 1) = sub THEN i
    ELSE IndexOfFrom(s, sub, i + 1)

\* String.prototype.includes
Includes(s, sub) == IndexOfFrom(s, sub, 1) # 0

\* imageName.includes(key) raises a TypeError when imageName has no includes method
IncludesThrows(value) == value.type # "string"

\* the longest key contained in the identifier, 0 when there is none
FindLongestKey(mappings, s) ==
    LET hits == {i \in 1..Len(mappings) : Includes(s, mappings[i].chars)}
    IN  IF hits = {} THEN 0
        ELSE CHOOSE i \in hits : \A j \in hits :
                \/ Len(mappings[j].chars) < Len(mappings[i].chars)
                \/ (Len(mappings[j].chars) = Len(mappings[i].chars) /\ i <= j)

\* Object.keys(SERVICE_MAPPINGS).find(key => imageName.includes(key)):
\* the index of the first key, 0 for undefined
RECURSIVE FindFrom(_, _, _)
FindFrom(mappings, s, i) ==
    IF i > Len(mappings) THEN 0
    ELSE IF Includes(s, mappings[i].chars) THEN i
    ELSE FindFrom(mappings, s, i + 1)

FindServiceKey(mappings, s) == FindFrom(mappings, s, 1)

----------------------------------------------------------------------------
(* Inputs *)

RegistryPrefix == <<"r", "/">>

\* image names pushed to the running system: one per loaded key, one unmapped
ImageNames ==
    {RegistryPrefix \o Registry[i].chars : i \in 1..Len(Registry)}
        \cup {RegistryPrefix \o <<"x">>}

\* request bodies of /webhook/dockerhub
Bodies ==
    {[hasRepository |-> FALSE, repo_name |-> JSUndefined, hasPushData |-> TRUE],
     [hasRepository |-> TRUE, repo_name |-> JSUndefined, hasPushData |-> FALSE]}
    \cup {[hasRepository |-> TRUE, repo_name |-> v, hasPushData |-> TRUE] :
            v \in {JSUndefined, JSNumber} \cup {JSString(n) : n \in ImageNames}}

\* results of getDeploymentStatus: a rejection, or status.replicas and status.readyReplicas
QueryOutcomes ==
    {[ok |-> FALSE, replicas |-> 0, readyReplicas |-> 0]}
    \cup {[ok |-> TRUE, replicas |-> n, readyReplicas |-> m] :
            n \in 0..MaxReplicas, m \in 0..MaxReplicas}

\* identifiers for the key lookup: every key of the table, whole or cut short,
\* bare or inside a longer name
Identifiers ==
    {pre \o SubSeq(SERVICE_MAPPINGS[i].chars, 1, Len(SERVICE_MAPPINGS[i].chars) - t) \o post :
        i \in 1..Len(SERVICE_MAPPINGS), t \in 0..MaxTrim,
        pre \in {<<>>, RegistryPrefix}, post \in {<<>>, <<"2">>}}

----------------------------------------------------------------------------
(* Initial state *)

\* a request entering the handler
NewRequest(body) ==
    [pc |-> "received",
     body |-> body,
     serviceKey |-> "undefined",
     threw |-> FALSE,
     updateCalls |-> 0,
     updateResult |-> "none",
     pendingAtResponse |-> FALSE,
     notice |-> "none",
     status |-> 0,
     message |-> ""]

\* an invocation of the cron callback before its first loop iteration
NewPoller ==
    [pc |-> "started",
     idx |-> 0,
     queried |-> [d \in Deployments |-> 0],
     remarked |-> FALSE]

\* what a step leaves in observed and delivery: each is kept from the start,
\* or never ("off")
Observe(status, sent) ==
    /\ observed' = IF observed = "off" THEN "off" ELSE status
    /\ delivery' = IF delivery = "off" THEN "off" ELSE sent

InitCore ==
    /\ updatedServices = {}
    /\ requests = EmptyBag
    /\ pollers = EmptyBag
    /\ successSince = [k \in RegistryKeys |-> 0]
    /\ okCount = [d \in Deployments |-> 0]

\* no /webhook/github request handled yet
NoGithub ==
    [handled |-> FALSE,
     body |-> [action |-> "undefined", workflow_run |-> "undefined",
               repository |-> "undefined", ref |-> "undefined"],
     threw |-> FALSE,
     notice |-> "none",
     notices |-> 0,
     status |-> 0,
     message |-> ""]

\* no lookup made
InitLookup ==
    /\ resolveInput = <<>>
    /\ resolveResult = [done |-> FALSE, index |-> 0]

\* no deployment read, nothing submitted
InitUpdater ==
    /\ deploymentContainers = <<>>
    /\ patch = [done |-> FALSE, containers |-> <<>>]

Init ==
    /\ InitCore
    /\ observed = "off"
    /\ delivery = "off"
    /\ telegramConfigured \in BOOLEAN
    /\ InitLookup
    /\ github = NoGithub
    /\ InitUpdater

\* requests and invocations carry no identity: they are kept as bags
Replace(bag, old, new) == (bag (-) SetToBag({old})) (+) SetToBag({new})

Remove(bag, old) == bag (-) SetToBag({old})

RECURSIVE SumCopies(_, _)
SumCopies(S, bag) ==
    IF S = {} THEN 0
    ELSE LET x == CHOOSE x \in S : TRUE
         IN  CopiesIn(x, bag) + SumCopies(S \ {x}, bag)

----------------------------------------------------------------------------
(* app.post('/webhook/dockerhub') *)

Respond(req, status, message) ==
    [req EXCEPT !.pc = "done", !.status = status, !.message = message]

\* the handler without the check of repository and push_data (lines 51-53)
WebhookReceiveUnchecked(body) ==
    /\ BagCardinality(requests) < MaxRequests
    /\ LET req == NewRequest(body)
           handled ==
             IF ~body.hasRepository \/ ~body.hasPushData \/ IncludesThrows(body.repo_name)
             THEN Respond([req EXCEPT !.threw = TRUE], 500, "Internal server error")
             ELSE LET i == FindServiceKey(Registry, body.repo_name.chars)
                  IN  IF i = 0
                      THEN Respond(req, 200, "No service mapping found")
                      ELSE [req EXCEPT !.pc = "updating",
                                       !.serviceKey = Registry[i].key,
                                       !.updateCalls = @ + 1]
       IN  requests' = requests (+) SetToBag({handled})
    /\ UNCHANGED <<updatedServices, pollers, successSince, okCount,
                   telegramConfigured, aside>>
    /\ Observe("none", "none")

\* from the start of the handler to the await of updateDeployment
WebhookReceive(body) ==
    /\ BagCardinality(requests) < MaxRequests
    /\ LET req == NewRequest(body)
           handled ==
             IF ~body.hasRepository \/ ~body.hasPushData
             THEN Respond(req, 400, "Invalid webhook format")
             ELSE IF IncludesThrows(body.repo_name)
             THEN Respond([req EXCEPT !.threw = TRUE], 500, "Internal server error")
             ELSE LET i == FindServiceKey(Registry, body.repo_name.chars)
                  IN  IF i = 0
                      THEN Respond(req, 200, "No service mapping found")
                      ELSE [req EXCEPT !.pc = "updating",
                                       !.serviceKey = Registry[i].key,
                                       !.updateCalls = @ + 1]
       IN  requests' = requests (+) SetToBag({handled})
    /\ UNCHANGED <<updatedServices, pollers, successSince, okCount,
                   telegramConfigured, aside>>
    /\ Observe("none", "none")

\* updatedServices.set(serviceKey, true) left out
PendingAfterSkippedMark(pending, serviceKey) == pending

\* updatedServices.set(serviceKey, true)
PendingAfterMark(pending, serviceKey) == pending \cup {serviceKey}

\* an invocation awaiting the notification for serviceKey has seen a set() of
\* it; so has one awaiting the status of serviceKey, where the monitor is watched
Remark(poller, serviceKey) ==
    IF /\ \/ poller.pc = "notifying"
          \/ poller.pc = "querying" /\ observed # "off"
       /\ Registry[poller.idx].key = serviceKey
    THEN [poller EXCEPT !.remarked = TRUE]
    ELSE poller

RemarkAll(bag, serviceKey) ==
    LET S == BagToSet(bag)
    IN  [t \in {Remark(x, serviceKey) : x \in S} |->
            SumCopies({x \in S : Remark(x, serviceKey) = t}, bag)]

\* updateDeployment resolved: mark, notify, respond
UpdateSucceeded(req) ==
    /\ BagIn(req, requests)
    /\ req.pc = "updating"
    /\ LET key == req.serviceKey
           marked == PendingAfterMark(updatedServices, key)
       IN  /\ updatedServices' = marked
           /\ requests' = Replace(requests, req,
                Respond([req EXCEPT !.updateResult = "resolved",
                                    !.notice = "updated",
                                    !.pendingAtResponse = key \in marked],
                        200, "Webhook processed successfully"))
           /\ successSince' = [successSince EXCEPT ![key] = 0]
           /\ okCount' = [okCount EXCEPT ![DeploymentOf(ConfigOf(Registry, key))] = 0]
           /\ pollers' = RemarkAll(pollers, key)
    /\ UNCHANGED <<telegramConfigured, aside>>
    /\ Observe("none", "none")

\* the failure branch also marks the service as updated
UpdateFailedMarks(req) ==
    /\ BagIn(req, requests)
    /\ req.pc = "updating"
    /\ requests' = Replace(requests, req,
            Respond([req EXCEPT !.updateResult = "rejected", !.notice = "failed"],
                    500, "Failed to update deployment"))
    /\ updatedServices' = updatedServices \cup {req.serviceKey}
    /\ UNCHANGED <<pollers, successSince, okCount,
                   telegramConfigured, aside>>
    /\ Observe("none", "none")

\* updateDeployment threw: notify the failure, respond 500
UpdateFailed(req) ==
    /\ BagIn(req, requests)
    /\ req.pc = "updating"
    /\ requests' = Replace(requests, req,
            Respond([req EXCEPT !.updateResult = "rejected", !.notice = "failed"],
                    500, "Failed to update deployment"))
    /\ UNCHANGED <<updatedServices, pollers, successSince, okCount,
                   telegramConfigured, aside>>
    /\ Observe("none", "none")

----------------------------------------------------------------------------
(* cron.schedule('*/30 * * * * *', async () => ...) *)

\* successSince and okCount count up to MaxNotices
Counted(n) == IF n < MaxNotices THEN n + 1 ELSE n

\* what a result of getDeploymentStatus shows: the query was rejected, or no
\* replica is desired, or the ready replicas differ from the desired ones
StatusKind(outcome) ==
    IF ~outcome.ok THEN "rejected"
    ELSE IF outcome.replicas = 0 THEN "zero"
    ELSE IF outcome.readyReplicas # outcome.replicas THEN "differ"
    ELSE "healthy"

\* isReady as getDeploymentStatus computes it
IsReady(outcome) == outcome.readyReplicas = outcome.replicas /\ outcome.replicas > 0

\* a status counts as running as soon as one replica is ready
RunningAnyReady(outcome) == outcome.ok /\ outcome.readyReplicas > 0

\* status.isReady && status.readyReplicas > 0
Running(outcome) == outcome.ok /\ IsReady(outcome) /\ outcome.readyReplicas > 0

\* the for loop has entries left after the one of this invocation
HasNextEntry(poller) == poller.idx < Len(Registry)

\* the next iteration of the for loop: getDeploymentStatus for the next entry
NextEntry(poller) ==
    [poller EXCEPT !.pc = "querying",
                   !.idx = @ + 1,
                   !.remarked = FALSE,
                   !.queried[DeploymentOf(Registry[poller.idx + 1])] = @ + 1]

\* the invocation goes on with the next entry, or returns
Continue(bag, poller) ==
    IF HasNextEntry(poller)
    THEN Replace(bag, poller, NextEntry(poller))
    ELSE Remove(bag, poller)

\* the timer fires: node-cron calls the callback without waiting for the
\* promise of the previous call
PollTick ==
    /\ BagCardinality(pollers) < MaxPollers
    /\ HasNextEntry(NewPoller)
    /\ pollers' = pollers (+) SetToBag({NextEntry(NewPoller)})
    /\ UNCHANGED <<updatedServices, requests, successSince, okCount,
                   telegramConfigured, aside>>
    /\ Observe("none", "none")

\* the try/catch encloses the for loop: a rejected query ends the invocation
PollQueryReturnAborts(poller, outcome) ==
    /\ BagIn(poller, pollers)
    /\ poller.pc = "querying"
    /\ LET entry == Registry[poller.idx]
           serviceName == entry.key
       IN  IF Running(outcome) /\ serviceName \in updatedServices
           THEN /\ successSince' = [successSince EXCEPT ![serviceName] = Counted(@)]
                /\ okCount' = [okCount EXCEPT ![DeploymentOf(entry)] = Counted(@)]
                /\ IF telegramConfigured
                   THEN /\ pollers' = Replace(pollers, poller,
                                              [poller EXCEPT !.pc = "notifying",
                                                              !.remarked = FALSE])
                        /\ UNCHANGED updatedServices
                   ELSE /\ updatedServices' = updatedServices \ {serviceName}
                        /\ pollers' = Continue(pollers, poller)
           ELSE /\ pollers' = IF outcome.ok THEN Continue(pollers, poller)
                                            ELSE Remove(pollers, poller)
                /\ UNCHANGED <<updatedServices, successSince, okCount>>
    /\ Observe(StatusKind(outcome), "none")
    /\ UNCHANGED <<requests, telegramConfigured, aside>>

\* the catch branch forgets the entry of the service whose query was rejected
PollQueryReturnForgets(poller, outcome) ==
    /\ BagIn(poller, pollers)
    /\ poller.pc = "querying"
    /\ LET entry == Registry[poller.idx]
           serviceName == entry.key
       IN  IF Running(outcome) /\ serviceName \in updatedServices
           THEN /\ successSince' = [successSince EXCEPT ![serviceName] = Counted(@)]
                /\ okCount' = [okCount EXCEPT ![DeploymentOf(entry)] = Counted(@)]
                /\ IF telegramConfigured
                   THEN /\ pollers' = Replace(pollers, poller,
                                              [poller EXCEPT !.pc = "notifying",
                                                              !.remarked = FALSE])
                        /\ UNCHANGED updatedServices
                   ELSE /\ updatedServices' = updatedServices \ {serviceName}
                        /\ pollers' = Continue(pollers, poller)
           ELSE /\ pollers' = Continue(pollers, poller)
                /\ updatedServices' = IF outcome.ok THEN updatedServices
                                      ELSE updatedServices \ {serviceName}
                /\ UNCHANGED <<successSince, okCount>>
    /\ Observe(StatusKind(outcome), "none")
    /\ UNCHANGED <<requests, telegramConfigured, aside>>

\* getDeploymentStatus settled: up to the await of sendTelegramNotification,
\* or to the next getDeploymentStatus
PollQueryReturn(poller, outcome) ==
    /\ BagIn(poller, pollers)
    /\ poller.pc = "querying"
    /\ LET entry == Registry[poller.idx]
           serviceName == entry.key
       IN  IF Running(outcome) /\ serviceName \in updatedServices
           THEN /\ successSince' = [successSince EXCEPT ![serviceName] = Counted(@)]
                /\ okCount' = [okCount EXCEPT ![DeploymentOf(entry)] = Counted(@)]
                /\ IF telegramConfigured
                   THEN /\ pollers' = Replace(pollers, poller,
                                              [poller EXCEPT !.pc = "notifying",
                                                              !.remarked = FALSE])
                        /\ UNCHANGED updatedServices
                   ELSE /\ updatedServices' = updatedServices \ {serviceName}
                        /\ pollers' = Continue(pollers, poller)
           ELSE /\ pollers' = Continue(pollers, poller)
                /\ UNCHANGED <<updatedServices, successSince, okCount>>
    /\ Observe(StatusKind(outcome), "none")
    /\ UNCHANGED <<requests, telegramConfigured, aside>>

\* sendTelegramNotification rejects when the message is not delivered: the
\* catch of the loop body is entered and delete() is skipped
PollNotifyDoneThrows(poller) ==
    /\ BagIn(poller, pollers)
    /\ poller.pc = "notifying"
    /\ pollers' = Continue(pollers, poller)
    /\ \E sent \in {"delivered", "undelivered"} :
          /\ Observe("none", sent)
          /\ updatedServices' = IF sent = "delivered"
                                THEN updatedServices \ {Registry[poller.idx].key}
                                ELSE updatedServices
    /\ UNCHANGED <<requests, successSince, okCount,
                   telegramConfigured, aside>>

\* axios.post settled (delivered or not): updatedServices.delete(serviceName)
PollNotifyDone(poller) ==
    /\ BagIn(poller, pollers)
    /\ poller.pc = "notifying"
    /\ updatedServices' = updatedServices \ {Registry[poller.idx].key}
    /\ pollers' = Continue(pollers, poller)
    /\ \E sent \in {"delivered", "undelivered"} : Observe("none", sent)
    /\ UNCHANGED <<requests, successSince, okCount,
                   telegramConfigured, aside>>

----------------------------------------------------------------------------
(* The running system *)

Next ==
    \/ \E body \in Bodies : WebhookReceive(body)
    \/ \E req \in BagToSet(requests) : UpdateSucceeded(req)
    \/ \E req \in BagToSet(requests) : UpdateFailed(req)
    \/ PollTick
    \/ \E poller \in BagToSet(pollers), outcome \in QueryOutcomes :
            PollQueryReturn(poller, outcome)
    \/ \E poller \in BagToSet(pollers) : PollNotifyDone(poller)

Spec == Init /\ [][Next]_vars

----------------------------------------------------------------------------
(* The running system with downstream calls that never return *)

\* exec('kubectl get deployment ...') never calls back: it is given no timeout
QueryHangs(poller) ==
    /\ BagIn(poller, pollers)
    /\ poller.pc = "querying"
    /\ pollers' = Replace(pollers, poller, [poller EXCEPT !.pc = "queryHung"])
    /\ UNCHANGED <<updatedServices, requests, successSince, okCount,
                   telegramConfigured, aside>>
    /\ Observe("none", "none")

\* axios.post(url, data) never settles: it is given no timeout
NotifyHangs(poller) ==
    /\ BagIn(poller, pollers)
    /\ poller.pc = "notifying"
    /\ pollers' = Replace(pollers, poller, [poller EXCEPT !.pc = "notifyHung"])
    /\ UNCHANGED <<updatedServices, requests, successSince, okCount,
                   telegramConfigured, aside>>
    /\ Observe("none", "none")

\* the steps by which an invocation of the cron callback goes on
PollerStep(poller) ==
    \/ \E outcome \in QueryOutcomes : PollQueryReturn(poller, outcome)
    \/ PollNotifyDone(poller)

NextHang ==
    \/ Next
    \/ \E poller \in BagToSet(pollers) : QueryHangs(poller)
    \/ \E poller \in BagToSet(pollers) : NotifyHangs(poller)

SpecHang == Init /\ [][NextHang]_vars

----------------------------------------------------------------------------
(* The running system while every deployment is healthy: every status      *)
(* query settles and reports all replicas ready, the timer keeps firing,   *)
(* and a send to Telegram settles or never does                            *)

\* the results of getDeploymentStatus with isReady and readyReplicas > 0
HealthyOutcomes == {outcome \in QueryOutcomes : StatusKind(outcome) = "healthy"}

\* getDeploymentStatus settles, healthy, for some invocation
HealthyQueryReturn ==
    \E poller \in BagToSet(pollers), outcome \in HealthyOutcomes :
        PollQueryReturn(poller, outcome)

\* axios.post settles for some invocation
SomeNotifyDone == \E poller \in BagToSet(pollers) : PollNotifyDone(poller)

\* an invocation suspended on a send that never settles is never resumed:
\* nothing of it is left but the pending promise
Abandon(poller) ==
    /\ BagIn(poller, pollers)
    /\ poller.pc = "notifyHung"
    /\ pollers' = Remove(pollers, poller)
    /\ UNCHANGED <<updatedServices, requests, successSince, okCount,
                   telegramConfigured, aside>>
    /\ Observe("none", "none")

NextHealthy ==
    \/ \E body \in Bodies : WebhookReceive(body)
    \/ \E req \in BagToSet(requests) : UpdateSucceeded(req)
    \/ \E req \in BagToSet(requests) : UpdateFailed(req)
    \/ PollTick
    \/ HealthyQueryReturn
    \/ SomeNotifyDone
    \/ \E poller \in BagToSet(pollers) : NotifyHangs(poller)
    \/ \E poller \in BagToSet(pollers) : Abandon(poller)

\* node-cron fires every 30 seconds; a settled promise resumes its invocation
Fairness ==
    /\ WF_vars(PollTick)
    /\ WF_vars(HealthyQueryReturn)
    /\ WF_vars(SomeNotifyDone)
    /\ WF_vars(\E poller \in BagToSet(pollers) : Abandon(poller))

SpecHealthy == Init /\ [][NextHealthy]_vars /\ Fairness

----------------------------------------------------------------------------
(* The key lookup on its own, over the whole table *)

InitResolve ==
    /\ InitCore
    /\ observed = "off"
    /\ delivery = "off"
    /\ telegramConfigured = FALSE
    /\ resolveInput \in Identifiers
    /\ resolveResult = [done |-> FALSE, index |-> 0]
    /\ github = NoGithub
    /\ InitUpdater

ResolveStep ==
    /\ ~resolveResult.done
    /\ resolveResult' = [done |-> TRUE,
                         index |-> FindServiceKey(SERVICE_MAPPINGS, resolveInput)]
    /\ UNCHANGED <<coreVars, resolveInput, github, updaterVars>>

NextResolve == ResolveStep

SpecResolve == InitResolve /\ [][NextResolve]_vars

----------------------------------------------------------------------------
(* app.post('/webhook/github'), on its own, in any state of updatedServices *)

\* request bodies: action, and the kinds of value of workflow_run, repository
\* and ref (an object workflow_run is named by its conclusion)
GithubBodies ==
    [action : {"completed", "requested", "in_progress", "opened", "synchronize",
               "deleted", "undefined"},
     workflow_run : {"undefined", "success", "failure", "string"},
     repository : {"undefined", "object", "number"},
     ref : {"undefined", "string", "number"}]

\* the && workflow_run of the branch conditions
Truthy(value) == value # "undefined"

\* req.body.ref?.replace(...) raises a TypeError when ref is neither
\* null, undefined nor a string
RefReplaceThrows(ref) == ref \notin {"undefined", "string"}

\* the notification the handler sends: "none" for the final else branch
GithubNotice(body) ==
    IF body.action = "completed" /\ Truthy(body.workflow_run)
    THEN (IF body.workflow_run = "success" THEN "success" ELSE "failure")
    ELSE IF body.action = "requested" /\ Truthy(body.workflow_run) THEN "started"
    ELSE IF body.action = "in_progress" /\ Truthy(body.workflow_run) THEN "inProgress"
    ELSE IF body.action \in {"opened", "synchronize"} THEN "push"
    ELSE "none"

\* the request after the handler has run
GithubHandled(body) ==
    LET notice == GithubNotice(body)
    IN  IF notice = "push" /\ RefReplaceThrows(body.ref)
        THEN [NoGithub EXCEPT !.handled = TRUE, !.body = body, !.threw = TRUE,
                              !.status = 500, !.message = "Internal server error"]
        ELSE [NoGithub EXCEPT !.handled = TRUE, !.body = body,
                              !.notice = notice,
                              !.notices = IF notice = "none" THEN 0 ELSE 1,
                              !.status = 200,
                              !.message = "GitHub webhook processed successfully"]

\* the handler also marks a service as updated
GithubWebhookMarks(body) ==
    /\ github' = GithubHandled(body)
    /\ updatedServices' = updatedServices \cup {Registry[1].key}
    /\ UNCHANGED <<requests, pollers, successSince, okCount,
                   telegramConfigured, observed, delivery, lookupVars,
                   updaterVars>>

\* the whole handler: it has no await
GithubWebhook(body) ==
    /\ github' = GithubHandled(body)
    /\ UNCHANGED <<coreVars, lookupVars, updaterVars>>

\* the request whose update left serviceKey in updatedServices
UpdatedRequest(serviceKey) ==
    LET config == ConfigOf(Registry, serviceKey)
        body == [hasRepository |-> TRUE,
                 repo_name |-> JSString(RegistryPrefix \o config.chars),
                 hasPushData |-> TRUE]
    IN  Respond([NewRequest(body) EXCEPT !.serviceKey = serviceKey,
                                         !.updateCalls = 1,
                                         !.updateResult = "resolved",
                                         !.notice = "updated",
                                         !.pendingAtResponse = TRUE],
                200, "Webhook processed successfully")

\* the states the updates of a set of services lead to, before any poll
InitGithub ==
    /\ updatedServices \in {S \in SUBSET RegistryKeys : Cardinality(S) <= MaxRequests}
    /\ requests = SetToBag({UpdatedRequest(k) : k \in updatedServices})
    /\ pollers = EmptyBag
    /\ successSince = [k \in RegistryKeys |-> 0]
    /\ okCount = [d \in Deployments |-> 0]
    /\ observed = "off"
    /\ delivery = "off"
    /\ telegramConfigured \in BOOLEAN
    /\ InitLookup
    /\ github = NoGithub
    /\ InitUpdater

NextGithub == \E body \in GithubBodies : GithubWebhook(body)

SpecGithub == InitGithub /\ [][NextGithub]_vars

----------------------------------------------------------------------------
(* updateDeployment: the container list it builds, on its own *)

\* largest number of containers in the pod template
MaxContainers == 3

\* the deployment updated, and `${image}:${tag}` with the tag 'latest'
UpdatedDeployment == Registry[1].deployment

FullImageName == "r/auth-service:latest"

ContainerNames == {UpdatedDeployment, "sidecar", "proxy"}

ContainerImages == {"r/auth-service:1", "busybox:1"}

\* pod templates: one to MaxContainers containers with distinct names
ContainerLists ==
    UNION {{c \in [1..n -> [name : ContainerNames, image : ContainerImages]] :
                \A i, j \in 1..n : c[i].name = c[j].name => i = j} :
           n \in 1..MaxContainers}

\* containers.forEach(...): the image is set in the container named like the
\* deployment and in the container at index 0
UpdatedContainers(containers, deployment, fullImageName) ==
    [i \in 1..Len(containers) |->
        IF containers[i].name = deployment \/ i = 1
        THEN [containers[i] EXCEPT !.image = fullImageName]
        ELSE containers[i]]

InitUpdaterSpec ==
    /\ InitCore
    /\ observed = "off"
    /\ delivery = "off"
    /\ telegramConfigured = FALSE
    /\ InitLookup
    /\ github = NoGithub
    /\ deploymentContainers \in ContainerLists
    /\ patch = [done |-> FALSE, containers |-> <<>>]

\* readNamespacedDeployment returned: build the list and submit it
SubmitPatch ==
    /\ ~patch.done
    /\ patch' = [done |-> TRUE,
                 containers |-> UpdatedContainers(deploymentContainers,
                                                  UpdatedDeployment, FullImageName)]
    /\ UNCHANGED <<coreVars, lookupVars, github, deploymentContainers>>

NextUpdater == SubmitPatch

SpecUpdater == InitUpdaterSpec /\ [][NextUpdater]_vars

----------------------------------------------------------------------------
(* The running system, with the end of every notification of the monitor   *)
(* kept in delivery                                                        *)

InitDelivery ==
    /\ InitCore
    /\ observed = "off"
    /\ delivery = "none"
    /\ telegramConfigured \in BOOLEAN
    /\ InitLookup
    /\ github = NoGithub
    /\ InitUpdater

SpecDelivery == InitDelivery /\ [][Next]_vars

----------------------------------------------------------------------------
(* The running system, with what each step of the monitor saw kept in      *)
(* observed and delivery                                                   *)

InitObserved ==
    /\ InitCore
    /\ observed = "none"
    /\ delivery = "none"
    /\ telegramConfigured \in BOOLEAN
    /\ InitLookup
    /\ github = NoGithub
    /\ InitUpdater

SpecObserved == InitObserved /\ [][Next]_vars

----------------------------------------------------------------------------
(* The monitor on its own, in any state of updatedServices, with what each *)
(* of its steps saw kept in observed and delivery                          *)

InitMonitor ==
    /\ updatedServices \in {S \in SUBSET RegistryKeys : Cardinality(S) <= MaxRequests}
    /\ requests = SetToBag({UpdatedRequest(k) : k \in updatedServices})
    /\ pollers = EmptyBag
    /\ successSince = [k \in RegistryKeys |-> 0]
    /\ okCount = [d \in Deployments |-> 0]
    /\ observed = "none"
    /\ delivery = "none"
    /\ telegramConfigured \in BOOLEAN
    /\ InitLookup
    /\ github = NoGithub
    /\ InitUpdater

NextMonitor ==
    \/ PollTick
    \/ \E poller \in BagToSet(pollers), outcome \in QueryOutcomes :
            PollQueryReturn(poller, outcome)
    \/ \E poller \in BagToSet(pollers) : PollNotifyDone(poller)

SpecMonitor == InitMonitor /\ [][NextMonitor]_vars

----------------------------------------------------------------------------
(* Properties *)

KeysOf(d) == {k \in RegistryKeys : DeploymentOf(ConfigOf(Registry, k)) = d}

\* C1: once an update of a deployment has been applied, the polls that see the
\* deployment running send exactly one success notification for it and remove
\* its pending entry; later polls send no further one until the next update:
\* never two success notifications since the last update, and once the one has
\* been sent and the monitor is at rest no key of the deployment is pending.
C1_OneSuccessPerUpdate ==
    \A d \in Deployments :
        /\ okCount[d] <= 1
        /\ (okCount[d] = 1 /\ pollers = EmptyBag) => KeysOf(d) \cap updatedServices = {}

\* C2: at most one invocation of the cron callback is active at any time.
C2_NoOverlappingCycles == BagCardinality(pollers) <= 1

\* C3: between two set() calls of a key at most one success notification is
\* sent for that key.
C3_AtMostOneSuccessPerInsertion ==
    \A k \in RegistryKeys : successSince[k] <= 1

\* C4: a key that a webhook handler set while the monitor was between has()
\* and delete() of that key is still in updatedServices after the delete().
C4_NoLostMark ==
    [][\A poller \in BagToSet(pollers) :
          (poller.pc = "notifying" /\ poller.remarked
              /\ CopiesIn(poller, pollers') < CopiesIn(poller, pollers))
          => Registry[poller.idx].key \in updatedServices']_vars

\* C5: updatedServices holds at most one entry per (namespace, deployment),
\* whichever keys the updates came in through.
C5_OneEntryPerDeployment ==
    \A d \in Deployments : Cardinality(KeysOf(d) \cap updatedServices) <= 1

\* C6: in one run of the cron callback each (namespace, deployment) is queried
\* once: never twice, and once by the time the last query of the run is out.
C6_QueriedOncePerCycle ==
    \A poller \in BagToSet(pollers) : \A d \in Deployments :
        /\ poller.queried[d] <= 1
        /\ poller.idx = Len(Registry) => poller.queried[d] = 1

\* s contains key, stated by positions
IsSubstring(key, s) ==
    \E a \in 0..Len(s) :
        /\ a + Len(key) <= Len(s)
        /\ \A n \in 1..Len(key) : s[a + n] = key[n]

\* C7: the lookup returns the first key in declaration order that is a
\* substring of the identifier, and undefined exactly when no key is one.
C7_FirstMatchInDeclarationOrder ==
    resolveResult.done =>
        LET i == resolveResult.index
            Hit(j) == IsSubstring(SERVICE_MAPPINGS[j].chars, resolveInput)
        IN  /\ i \in 0..Len(SERVICE_MAPPINGS)
            /\ (i = 0) <=> (\A j \in 1..Len(SERVICE_MAPPINGS) : ~Hit(j))
            /\ (i # 0) => (Hit(i) /\ \A j \in 1..(i - 1) : ~Hit(j))

\* a lookup that returned a key although a later, longer key matches too
C7_Witness ==
    /\ resolveResult.done
    /\ resolveResult.index # 0
    /\ \E j \in (resolveResult.index + 1)..Len(SERVICE_MAPPINGS) :
          /\ IsSubstring(SERVICE_MAPPINGS[j].chars, resolveInput)
          /\ Len(SERVICE_MAPPINGS[j].chars) > Len(SERVICE_MAPPINGS[resolveResult.index].chars)

\* C8: for a body that has repository and push_data, the lookup raises no error.
C8_LookupNeverThrows ==
    \A req \in BagToSet(requests) :
        (req.body.hasRepository /\ req.body.hasPushData) => ~req.threw

\* C9: when the 200 'Webhook processed successfully' response is sent, the key
\* is already in updatedServices.
C9_PendingBeforeResponse ==
    \A req \in BagToSet(requests) :
        (req.status = 200 /\ req.message = "Webhook processed successfully")
            => req.pendingAtResponse

\* a request answered with the success response after its update resolved
C9_Witness ==
    \E req \in BagToSet(requests) :
        /\ req.updateResult = "resolved"
        /\ req.status = 200
        /\ req.message = "Webhook processed successfully"
        /\ req.pendingAtResponse

\* C10: when updateDeployment fails, the handler responds 500, sends the
\* failure notification, leaves updatedServices as it was, and no request
\* ever calls updateDeployment a second time.
C10_FailureNoMarkNoRetry ==
    /\ [](\A req \in BagToSet(requests) : req.updateCalls <= 1)
    /\ [][\A req \in BagToSet(requests') :
            (req.updateResult = "rejected"
                /\ CopiesIn(req, requests') > CopiesIn(req, requests))
            => /\ req.status = 500
               /\ req.notice = "failed"
               /\ req.pc = "done"
               /\ req.updateCalls = 1
               /\ updatedServices' = updatedServices]_vars

\* a request whose update failed, while its key is not pending
C10_Witness ==
    \E req \in BagToSet(requests) :
        /\ req.updateResult = "rejected"
        /\ req.status = 500
        /\ req.serviceKey \notin updatedServices

\* C11: a request that dispatches nothing changes nothing: a body without
\* repository or push_data is answered 400, an image name that contains no key
\* is answered 200 'No service mapping found', and in both cases
\* updateDeployment is not called, no notification is sent and updatedServices
\* stays as it was.
C11_NothingDispatched ==
    [][\A req \in BagToSet(requests') :
          (CopiesIn(req, requests') > CopiesIn(req, requests) /\ req.updateResult = "none")
          => LET invalid == ~req.body.hasRepository \/ ~req.body.hasPushData
                 unmapped == /\ ~invalid
                             /\ req.body.repo_name.type = "string"
                             /\ \A i \in 1..Len(Registry) :
                                   ~IsSubstring(Registry[i].chars, req.body.repo_name.chars)
                 untouched == /\ req.pc = "done"
                              /\ req.updateCalls = 0
                              /\ req.notice = "none"
                              /\ updatedServices' = updatedServices
                              /\ pollers' = pollers
             IN  /\ invalid => (req.status = 400 /\ untouched)
                 /\ unmapped => (/\ req.status = 200
                                 /\ req.message = "No service mapping found"
                                 /\ untouched)]_vars

\* a request that dispatches nothing was answered while a key is pending
C11_Witness ==
    /\ updatedServices # {}
    /\ \E req \in BagToSet(requests) :
          /\ req.pc = "done"
          /\ req.updateCalls = 0
          /\ req.status = 400 \/ req.message = "No service mapping found"

\* C12: the /webhook/github handler answers every request with 200
\* 'GitHub webhook processed successfully', whatever the action and the types
\* of workflow_run, repository and ref.
C12_GithubAlwaysOk ==
    github.handled =>
        (github.status = 200 /\ github.message = "GitHub webhook processed successfully")

\* C13: handling a /webhook/github request calls no updateDeployment, leaves
\* updatedServices as it was and sends at most one notification.
C13_GithubOnlyNotifies ==
    [][/\ updatedServices' = updatedServices
       /\ requests' = requests
       /\ pollers' = pollers
       /\ github'.notices <= 1]_vars

\* a /webhook/github request that sent its notification while a key is pending
C13_Witness ==
    /\ github.handled
    /\ github.notices = 1
    /\ updatedServices # {}

\* the primary container: the one named like the deployment, else the first
PrimaryIndex(containers, deployment) ==
    IF \E i \in 1..Len(containers) : containers[i].name = deployment
    THEN CHOOSE i \in 1..Len(containers) : containers[i].name = deployment
    ELSE 1

\* C20: the submitted container list differs from the one read in the image of
\* the primary container only, which is the new image.
C20_OnlyPrimaryReplaced ==
    patch.done =>
        LET p == PrimaryIndex(deploymentContainers, UpdatedDeployment)
        IN  /\ Len(patch.containers) = Len(deploymentContainers)
            /\ \A i \in 1..Len(deploymentContainers) :
                  patch.containers[i] =
                      IF i = p
                      THEN [deploymentContainers[i] EXCEPT !.image = FullImageName]
                      ELSE deploymentContainers[i]

\* C17: a key leaves updatedServices only in a step of the monitor, and only
\* when the monitor has seen it running since its last set(): a key not seen
\* running after its update stays pending.
C17_RemovedOnlyWhenSeenRunning ==
    [][\A k \in RegistryKeys :
          (k \in updatedServices /\ k \notin updatedServices')
          => /\ requests' = requests
             /\ pollers' # pollers
             /\ successSince'[k] >= 1]_vars

\* C19: an invocation of the cron callback is never blocked for good: whatever
\* its downstream call does, the invocation still has a step by which it goes
\* on to the remaining entries.
C19_NeverBlocked ==
    \A poller \in BagToSet(pollers) : ENABLED PollerStep(poller)

\* the invocation poller takes this step
Steps(poller) ==
    /\ BagIn(poller, pollers)
    /\ CopiesIn(poller, pollers') < CopiesIn(poller, pollers)

\* after this step one more invocation awaits the status of entry idx
Evaluates(idx) ==
    \E next \in BagToSet(pollers') :
        /\ next.pc = "querying"
        /\ next.idx = idx
        /\ CopiesIn(next, pollers') > CopiesIn(next, pollers)

\* after this step one more invocation awaits the delivery of a notification
NotificationStarted ==
    \E next \in BagToSet(pollers') :
        /\ next.pc = "notifying"
        /\ CopiesIn(next, pollers') > CopiesIn(next, pollers)

\* C14: when the status query of an entry is rejected, the invocation goes on
\* to the entry listed next, in the same cycle; and an entry that is pending
\* and seen healthy gets its success notification, whatever happened to the
\* entries before it.
C14_FailureDoesNotEndCycle ==
    [][\A poller \in BagToSet(pollers) :
          (poller.pc = "querying" /\ Steps(poller))
          => /\ (observed' = "rejected" /\ poller.idx < Len(Registry))
                    => Evaluates(poller.idx + 1)
             /\ (observed' = "healthy"
                    /\ Registry[poller.idx].key \in updatedServices)
                    => LET key == Registry[poller.idx].key
                       IN  /\ successSince'[key] = successSince[key] + 1
                           /\ IF telegramConfigured THEN NotificationStarted
                              ELSE key \notin updatedServices']_vars

\* a query was rejected, and the invocation is at the next entry, which is
\* pending
C14_Witness ==
    /\ observed = "rejected"
    /\ \E poller \in BagToSet(pollers) :
          /\ poller.pc = "querying"
          /\ poller.idx > 1
          /\ Registry[poller.idx].key \in updatedServices

\* C15: a rejected status query changes nothing of updatedServices, neither
\* the entry of the service queried nor any other, and sends no notification.
C15_FailedQueryLeavesEntry ==
    [][observed' = "rejected"
          => /\ updatedServices' = updatedServices
             /\ successSince' = successSince
             /\ okCount' = okCount
             /\ ~NotificationStarted]_vars

\* a query was rejected while every key was pending, and every key still is
C15_Witness ==
    /\ observed = "rejected"
    /\ updatedServices = RegistryKeys
    /\ \A k \in RegistryKeys : successSince[k] = 0

\* C16: a status whose ready replicas differ from the desired ones, or that
\* desires none, sends no notification and leaves updatedServices as it was.
C16_NotHealthyNoNotice ==
    [][observed' \in {"zero", "differ"}
          => /\ updatedServices' = updatedServices
             /\ successSince' = successSince
             /\ okCount' = okCount
             /\ ~NotificationStarted]_vars

\* a status that is not healthy was seen while a key was pending
C16_Witness ==
    /\ observed \in {"zero", "differ"}
    /\ updatedServices # {}
    /\ \A k \in RegistryKeys : successSince[k] = 0

\* C18: the end of a delivery changes nothing of what follows: delivered or
\* not, the key notified leaves updatedServices and the invocation goes on to
\* the next entry; without credentials the same happens at once; and a request
\* is answered by the result of updateDeployment alone.
C18_DeliveryFailureAbsorbed ==
    /\ [](\A req \in BagToSet(requests) :
            /\ req.updateResult = "resolved" => req.status = 200
            /\ req.updateResult = "rejected" => req.status = 500)
    /\ [][\A poller \in BagToSet(pollers) :
            Steps(poller)
            => LET key == Registry[poller.idx].key
                   notified == \/ delivery' \in {"delivered", "undelivered"}
                               \/ /\ ~telegramConfigured
                                  /\ successSince'[key] = successSince[key] + 1
               IN  notified
                   => /\ key \notin updatedServices'
                      /\ poller.idx < Len(Registry) => Evaluates(poller.idx + 1)
                      /\ requests' = requests]_vars

\* a notification was not delivered: its key is pending no more, the invocation
\* awaits the next status, and the request of the update was answered 200
C18_Witness ==
    /\ delivery = "undelivered"
    /\ Registry[1].key \notin updatedServices
    /\ \E poller \in BagToSet(pollers) : poller.pc = "querying" /\ poller.idx = 2
    /\ \E req \in BagToSet(requests) :
          /\ req.serviceKey = Registry[1].key
          /\ req.updateResult = "resolved"
          /\ req.status = 200

\* C22: a status query that was already out when its key was set leads to no
\* success notification and to no removal of the key: the step that resumes
\* the invocation leaves the key pending and notifies nothing.
C22_NoStaleConfirmation ==
    [][\A poller \in BagToSet(pollers) :
          (poller.pc = "querying" /\ poller.remarked /\ Steps(poller))
          => LET key == Registry[poller.idx].key
             IN  /\ key \in updatedServices'
                 /\ successSince'[key] = successSince[key]
                 /\ ~NotificationStarted]_vars

\* C21: while every status query settles and reports the deployment healthy
\* and the timer keeps firing, every key in updatedServices is eventually
\* removed from it.
C21_PendingEventuallyConfirmed ==
    \A k \in RegistryKeys : (k \in updatedServices) ~> (k \notin updatedServices)

====
